---- MODULE Spec2Model ----
(***************************************************************************)
(* Model of darling's FromMetaItem conversion trait                        *)
(* (core/src/from_meta_item.rs): the layered default methods that dispatch *)
(* on the shape of an attribute item and on the kind of a literal, and the *)
(* provided implementations for (), bool, String, AtomicBool, Option,      *)
(* Result and HashMap<String, V>.  Box, Rc, Arc and RefCell wrap the inner *)
(* conversion exactly as Option does and are not drawn as inputs; the      *)
(* impls that call into syn's parsers are left out.                        *)
(*                                                                         *)
(* Every trait method is an operator that returns the Rust Result it       *)
(* produces together with the trace of the trait methods it invoked, in    *)
(* call order.  A target type is a sequence of layers, outermost first:    *)
(* Option<bool> is <<Option, bool>>.                                       *)
(***************************************************************************)
EXTENDS Integers, Sequences, FiniteSets, TLC

\* Longest list of nested meta items drawn as input.
MaxLen == 2
\* Deepest nesting of wrapper types (Option, Result, HashMap) drawn.
MaxWrap == 1

(***************************************************************************)
(* syn's attribute grammar: Lit, MetaItem, NestedMetaItem.                 *)
(***************************************************************************)
\* syn::Lit: Bool(bool), Str(String, StrStyle), Char(char), Int(..), ...
\* b is the payload of Bool, s the contents of every other kind, raw the
\* StrStyle of a Str.
Lit(kind, b, s, raw) == [kind |-> kind, b |-> b, s |-> s, raw |-> raw]
LitBool(b) == Lit("Bool", b, "", FALSE)
LitStr(s, raw) == Lit("Str", FALSE, s, raw)
LitChar(c) == Lit("Char", FALSE, c, FALSE)
LitInt(n) == Lit("Int", FALSE, n, FALSE)
NoLit == Lit("", FALSE, "", FALSE)

\* syn::MetaItem: Word(Ident), List(Ident, Vec<NestedMetaItem>),
\* NameValue(Ident, Lit).
Word(name) == [shape |-> "Word", name |-> name, items |-> <<>>, lit |-> NoLit]
List(name, items) == [shape |-> "List", name |-> name, items |-> items, lit |-> NoLit]
NameValue(name, lit) == [shape |-> "NameValue", name |-> name, items |-> <<>>, lit |-> lit]

\* syn::NestedMetaItem: Literal(Lit) or MetaItem(MetaItem); mi holds the
\* meta item of the second variant and is empty for the first.
NestedLiteral(lit) == [nk |-> "Literal", lit |-> lit, mi |-> <<>>]
NestedMetaItem(mi) == [nk |-> "MetaItem", lit |-> NoLit, mi |-> <<mi>>]

(***************************************************************************)
(* darling::Error and the values the conversions build.                    *)
(***************************************************************************)
Error(kind, arg) == [kind |-> kind, arg |-> arg]
NoError == Error("", "")
unsupported_format(f) == Error("unsupported_format", f)
unexpected_type(t) == Error("unexpected_type", t)
unknown_value(v) == Error("unknown_value", v)
duplicate_field(n) == Error("duplicate_field", n)

\* A value of any target type: k is the constructor, b / s a bool / string
\* payload, in the wrapped value (if any), m the entries of a map, e the
\* error held by an Err value of type Result<T>.
Val(k, b, s, in, m, e) == [k |-> k, b |-> b, s |-> s, in |-> in, m |-> m, e |-> e]
NoValue == Val("", FALSE, "", <<>>, {}, NoError)
UnitVal == Val("unit", FALSE, "", <<>>, {}, NoError)
BoolVal(b) == Val("bool", b, "", <<>>, {}, NoError)
StringVal(s) == Val("String", FALSE, s, <<>>, {}, NoError)
SomeVal(v) == Val("Some", FALSE, "", <<v>>, {}, NoError)
NoneVal == Val("None", FALSE, "", <<>>, {}, NoError)
AtomicBoolVal(v) == Val("AtomicBool", FALSE, "", <<v>>, {}, NoError)
MapVal(m) == Val("HashMap", FALSE, "", <<>>, m, NoError)
\* What an implementor's own from_* routine builds from its argument.
UserVal(fn, b, s) == Val(fn, b, s, <<>>, {}, NoError)

\* Rust's Result<Self>: Ok(val) or Err(err).
Ok(v) == [ok |-> TRUE, val |-> v, err |-> NoError]
Err(e) == [ok |-> FALSE, val |-> NoValue, err |-> e]
\* A Result<T> stored as a value (the target type Result<T, Error>).
ResultVal(out) ==
    IF out.ok THEN Val("Ok", FALSE, "", <<out.val>>, {}, NoError)
    ELSE Val("Err", FALSE, "", <<>>, {}, out.err)

\* The outcome of a call and the trait methods it invoked, in order.
R(out, calls) == [out |-> out, calls |-> calls]
Call(fn, self) == [fn |-> fn, self |-> self]

Then(calls, r) == R(r.out, calls \o r.calls)

(***************************************************************************)
(* Target types.  A layer names the type constructor and the trait methods *)
(* its impl block defines; every other method is the trait's default.      *)
(***************************************************************************)
Layer(ctor, ov) == [ctor |-> ctor, ov |-> ov]
Self(ty) == Head(ty).ctor
Overrides(ty) == Head(ty).ov

\* The from_* routines an implementor is told to pick from.
Methods == {"from_word", "from_list", "from_char", "from_string", "from_bool"}

UnitTy == <<Layer("unit", {"from_word"})>>
BoolTy == <<Layer("bool", {"from_word", "from_bool", "from_string"})>>
StringTy == <<Layer("String", {"from_string"})>>
AtomicBoolTy == <<Layer("AtomicBool", {"from_meta_item"})>>
OptionTy(t) == <<Layer("Option", {"from_meta_item"})>> \o t
ResultTy(t) == <<Layer("Result", {"from_meta_item"})>> \o t
HashMapTy(v) == <<Layer("HashMap", {"from_list"})>> \o v
\* An implementor outside this file that defines exactly the routines in ov.
UserTy(ov) == <<Layer("User", ov)>>

(***************************************************************************)
(* The trait's default methods and the provided implementations.           *)
(***************************************************************************)
RECURSIVE from_meta_item(_, _)

default_from_word == R(Err(unsupported_format("word")), <<>>)

default_from_list(items) == R(Err(unsupported_format("list")), <<>>)

default_from_char(value) == R(Err(unexpected_type("char")), <<>>)

\* Mutant: the default for a string literal reports the wrong literal kind.
default_from_string_char(value) == R(Err(unexpected_type("char")), <<>>)

default_from_string(value) == R(Err(unexpected_type("string")), <<>>)

default_from_bool(value) == R(Err(unexpected_type("bool")), <<>>)

unit_from_word == R(Ok(UnitVal), <<>>)

bool_from_word == R(Ok(BoolVal(TRUE)), <<>>)

bool_from_bool(value) == R(Ok(BoolVal(value)), <<>>)

\* <bool as FromStr>::from_str: "true" and "false" only, case-sensitive.
parse_bool(value) ==
    CASE value = "true" -> Ok(BoolVal(TRUE))
      [] value = "false" -> Ok(BoolVal(FALSE))
      [] OTHER -> Err(NoError)

\* Mutant: a string that is no bool is read as false.
bool_from_string_lenient(value) ==
    LET p == parse_bool(value) IN
    R(IF p.ok THEN p ELSE Ok(BoolVal(FALSE)), <<>>)

bool_from_string(value) ==
    LET p == parse_bool(value) IN
    R(IF p.ok THEN p ELSE Err(unknown_value(value)), <<>>)

String_from_string(s) == R(Ok(StringVal(s)), <<>>)

User_from_word == R(Ok(UserVal("from_word", FALSE, "")), <<>>)

User_from_list(items) == R(Ok(UserVal("from_list", FALSE, "")), <<>>)

User_from_char(value) == R(Ok(UserVal("from_char", FALSE, value)), <<>>)

User_from_string(value) == R(Ok(UserVal("from_string", FALSE, value)), <<>>)

User_from_bool(value) == R(Ok(UserVal("from_bool", value, "")), <<>>)

RECURSIVE HashMap_loop(_, _, _, _, _)

\* Mutant: a bare literal among the nested items is rejected.
HashMap_loop_no_literals(ty, nested, i, map, calls) ==
    IF i > Len(nested) THEN R(Ok(MapVal(map)), calls)
    ELSE IF nested[i].nk = "MetaItem" THEN
        LET inner == nested[i].mi[1] IN
        IF \E en \in map : en.key = inner.name
        THEN R(Err(duplicate_field(inner.name)), calls)
        ELSE LET r == from_meta_item(Tail(ty), inner) IN
             IF r.out.ok
             THEN HashMap_loop(ty, nested, i + 1,
                               map \cup {[key |-> inner.name, v |-> r.out.val]},
                               calls \o r.calls)
             ELSE R(Err(r.out.err), calls \o r.calls)
    ELSE R(Err(unexpected_type("other")), calls)

\* Mutant: the item is converted before its name is looked up in the map.
HashMap_loop_convert_first(ty, nested, i, map, calls) ==
    IF i > Len(nested) THEN R(Ok(MapVal(map)), calls)
    ELSE IF nested[i].nk = "MetaItem" THEN
        LET inner == nested[i].mi[1]
            r == from_meta_item(Tail(ty), inner) IN
        IF ~r.out.ok THEN R(Err(r.out.err), calls \o r.calls)
        ELSE IF \E en \in map : en.key = inner.name
        THEN R(Err(duplicate_field(inner.name)), calls \o r.calls)
        ELSE HashMap_loop(ty, nested, i + 1,
                          map \cup {[key |-> inner.name, v |-> r.out.val]},
                          calls \o r.calls)
    ELSE HashMap_loop(ty, nested, i + 1, map, calls)

\* HashMap<String, V>::from_list, the loop from its i-th nested item on.
HashMap_loop(ty, nested, i, map, calls) ==
    IF i > Len(nested) THEN R(Ok(MapVal(map)), calls)
    ELSE IF nested[i].nk = "MetaItem" THEN
        LET inner == nested[i].mi[1] IN
        IF \E en \in map : en.key = inner.name
        THEN R(Err(duplicate_field(inner.name)), calls)
        ELSE LET r == from_meta_item(Tail(ty), inner) IN
             IF r.out.ok
             THEN HashMap_loop(ty, nested, i + 1,
                               map \cup {[key |-> inner.name, v |-> r.out.val]},
                               calls \o r.calls)
             ELSE R(Err(r.out.err), calls \o r.calls)
    ELSE HashMap_loop(ty, nested, i + 1, map, calls)

HashMap_from_list(ty, nested) == HashMap_loop(ty, nested, 1, {}, <<>>)

from_word(ty) ==
    Then(<<Call("from_word", Self(ty))>>,
         CASE Self(ty) = "unit" -> unit_from_word
           [] Self(ty) = "bool" -> bool_from_word
           [] Self(ty) = "User" /\ "from_word" \in Overrides(ty) -> User_from_word
           [] OTHER -> default_from_word)

from_list(ty, items) ==
    Then(<<Call("from_list", Self(ty))>>,
         CASE Self(ty) = "HashMap" -> HashMap_from_list(ty, items)
           [] Self(ty) = "User" /\ "from_list" \in Overrides(ty) -> User_from_list(items)
           [] OTHER -> default_from_list(items))

from_char(ty, value) ==
    Then(<<Call("from_char", Self(ty))>>,
         CASE Self(ty) = "User" /\ "from_char" \in Overrides(ty) -> User_from_char(value)
           [] OTHER -> default_from_char(value))

from_string(ty, value) ==
    Then(<<Call("from_string", Self(ty))>>,
         CASE Self(ty) = "bool" -> bool_from_string(value)
           [] Self(ty) = "String" -> String_from_string(value)
           [] Self(ty) = "User" /\ "from_string" \in Overrides(ty) -> User_from_string(value)
           [] OTHER -> default_from_string(value))

from_bool(ty, value) ==
    Then(<<Call("from_bool", Self(ty))>>,
         CASE Self(ty) = "bool" -> bool_from_bool(value)
           [] Self(ty) = "User" /\ "from_bool" \in Overrides(ty) -> User_from_bool(value)
           [] OTHER -> default_from_bool(value))

from_value(ty, value) ==
    Then(<<Call("from_value", Self(ty))>>,
         CASE value.kind = "Bool" -> from_bool(ty, value.b)
           [] value.kind = "Str" -> from_string(ty, value.s)
           [] OTHER -> R(Err(unexpected_type("other")), <<>>))

\* Mutant: the List arm calls from_word.
default_from_meta_item_list_as_word(ty, item) ==
    CASE item.shape = "Word" -> from_word(ty)
      [] item.shape = "List" -> from_word(ty)
      [] item.shape = "NameValue" -> from_value(ty, item.lit)

default_from_meta_item(ty, item) ==
    CASE item.shape = "Word" -> from_word(ty)
      [] item.shape = "List" -> from_list(ty, item.items)
      [] item.shape = "NameValue" -> from_value(ty, item.lit)

AtomicBool_from_meta_item(mi) ==
    LET r == from_meta_item(BoolTy, mi) IN
    R(IF r.out.ok THEN Ok(AtomicBoolVal(r.out.val)) ELSE Err(r.out.err), r.calls)

\* Mutant: a failed inner conversion becomes None.
Option_from_meta_item_ok_none(ty, item) ==
    LET r == from_meta_item(Tail(ty), item) IN
    R(IF r.out.ok THEN Ok(SomeVal(r.out.val)) ELSE Ok(NoneVal), r.calls)

Option_from_meta_item(ty, item) ==
    LET r == from_meta_item(Tail(ty), item) IN
    R(IF r.out.ok THEN Ok(SomeVal(r.out.val)) ELSE Err(r.out.err), r.calls)

\* Mutant: the inner error is propagated with `?`.
Result_from_meta_item_try(ty, item) ==
    LET r == from_meta_item(Tail(ty), item) IN
    R(IF r.out.ok THEN Ok(ResultVal(r.out)) ELSE Err(r.out.err), r.calls)

Result_from_meta_item(ty, item) ==
    LET r == from_meta_item(Tail(ty), item) IN
    R(Ok(ResultVal(r.out)), r.calls)

from_meta_item(ty, item) ==
    Then(<<Call("from_meta_item", Self(ty))>>,
         CASE Self(ty) = "AtomicBool" -> AtomicBool_from_meta_item(item)
           [] Self(ty) = "Option" -> Option_from_meta_item(ty, item)
           [] Self(ty) = "Result" -> Result_from_meta_item(ty, item)
           [] OTHER -> default_from_meta_item(ty, item))

from_nested_meta_item(ty, item) ==
    Then(<<Call("from_nested_meta_item", Self(ty))>>,
         CASE item.nk = "Literal" -> from_value(ty, item.lit)
           [] item.nk = "MetaItem" -> from_meta_item(ty, item.mi[1]))

(***************************************************************************)
(* The inputs: target types and attribute items.                            *)
(***************************************************************************)
BaseTypes ==
    {UnitTy, BoolTy, StringTy, AtomicBoolTy} \cup {UserTy(ov) : ov \in SUBSET Methods}

RECURSIVE Types(_)
Types(d) ==
    IF d = 0 THEN BaseTypes
    ELSE LET inner == Types(d - 1) IN
         inner \cup {OptionTy(t) : t \in inner} \cup {ResultTy(t) : t \in inner}
               \cup {HashMapTy(t) : t \in inner}

Names == {"hello", "world"}
OuterNames == {"hello"}

ValueLits ==
    {LitBool(TRUE), LitBool(FALSE), LitStr("true", FALSE), LitStr("false", FALSE),
     LitStr("True", FALSE), LitStr("world", FALSE), LitStr("world", TRUE),
     LitChar("c"), LitInt("1")}

NestedLits == {LitBool(FALSE), LitStr("true", FALSE), LitChar("c")}

NestedChoices ==
    {NestedLiteral(LitStr("world", FALSE))}
      \cup {NestedMetaItem(Word(n)) : n \in Names}
      \cup {NestedMetaItem(NameValue(n, l)) : n \in Names, l \in NestedLits}
      \cup {NestedMetaItem(List("world", <<NestedMetaItem(Word("hello"))>>))}

NestedLists == UNION {[1..n -> NestedChoices] : n \in 0..MaxLen}

MetaItems ==
    {Word(n) : n \in OuterNames}
      \cup {NameValue(n, l) : n \in OuterNames, l \in ValueLits}
      \cup {List(n, items) : n \in OuterNames, items \in NestedLists}

Inputs ==
    {NestedLiteral(l) : l \in ValueLits} \cup {NestedMetaItem(mi) : mi \in MetaItems}

(***************************************************************************)
(* The state: a target type, the item handed to it, the trait method       *)
(* called on it and what that call returned.                               *)
(***************************************************************************)
VARIABLES ty, input, op, result
vars == <<ty, input, op, result>>

NoResult == R(Err(NoError), <<>>)

Init ==
    /\ ty \in Types(MaxWrap)
    /\ input \in Inputs
    /\ op = "none"
    /\ result = NoResult

\* The meta item and the literal the input carries, when it carries one.
IsItem == input.nk = "MetaItem"
Item == input.mi[1]
HasLit == input.nk = "Literal" \/ (IsItem /\ Item.shape = "NameValue")
TheLit == IF input.nk = "Literal" THEN input.lit ELSE Item.lit

Returns(name, r) ==
    /\ op = "none"
    /\ op' = name
    /\ result' = r
    /\ UNCHANGED <<ty, input>>

FromNestedMetaItem ==
    /\ input.nk \in {"Literal", "MetaItem"}
    /\ Returns("from_nested_meta_item", from_nested_meta_item(ty, input))

FromMetaItem == IsItem /\ Returns("from_meta_item", from_meta_item(ty, Item))

FromWord == IsItem /\ Item.shape = "Word" /\ Returns("from_word", from_word(ty))

FromList == IsItem /\ Item.shape = "List" /\ Returns("from_list", from_list(ty, Item.items))

FromValue == HasLit /\ Returns("from_value", from_value(ty, TheLit))

FromChar == HasLit /\ TheLit.kind = "Char" /\ Returns("from_char", from_char(ty, TheLit.s))

FromString == HasLit /\ TheLit.kind = "Str" /\ Returns("from_string", from_string(ty, TheLit.s))

FromBool == HasLit /\ TheLit.kind = "Bool" /\ Returns("from_bool", from_bool(ty, TheLit.b))

Next ==
    \/ FromNestedMetaItem
    \/ FromMetaItem
    \/ FromWord
    \/ FromList
    \/ FromValue
    \/ FromChar
    \/ FromString
    \/ FromBool

Spec == Init /\ [][Next]_vars

(***************************************************************************)
(* Properties.                                                             *)
(***************************************************************************)
Called(fn) == \E i \in 1..Len(result.calls) : result.calls[i].fn = fn
DefaultDispatch == "from_meta_item" \notin Overrides(ty)

\* C1: a type that keeps the default from_meta_item gets, for a Word, exactly
\* what from_word() returns, for a List exactly what from_list(items)
\* returns, for a NameValue exactly what from_value(literal) returns: the
\* same value or error, and no routine is invoked besides that one call.
C1_DispatchOnShape ==
    (op = "from_meta_item" /\ DefaultDispatch) =>
        /\ Head(result.calls) = Call("from_meta_item", Self(ty))
        /\ (Item.shape = "Word" =>
                /\ result.out = from_word(ty).out
                /\ Tail(result.calls) = from_word(ty).calls)
        /\ (Item.shape = "List" =>
                /\ result.out = from_list(ty, Item.items).out
                /\ Tail(result.calls) = from_list(ty, Item.items).calls)
        /\ (Item.shape = "NameValue" =>
                /\ result.out = from_value(ty, Item.lit).out
                /\ Tail(result.calls) = from_value(ty, Item.lit).calls)

C1_Witness ==
    /\ op = "from_meta_item"
    /\ ty = HashMapTy(BoolTy)
    /\ Item.shape = "List"
    /\ Len(Item.items) = 2
    /\ result.out.ok
    /\ Cardinality(result.out.val.m) = 2

\* C2: for bool, from_meta_item gives Ok(true) for a Word, Ok(b) for the bool
\* literal b, Ok(true) / Ok(false) for the string literals "true" / "false",
\* unknown-value carrying the string for any other string literal, and an
\* error for a List and for every other kind of literal.
C2_Bool ==
    (op = "from_meta_item" /\ ty = BoolTy) =>
        /\ (Item.shape = "Word" => result.out = Ok(BoolVal(TRUE)))
        /\ (Item.shape = "List" => ~result.out.ok /\ result.out.val = NoValue)
        /\ (Item.shape = "NameValue" =>
                LET l == Item.lit IN
                /\ (l.kind = "Bool" => result.out = Ok(BoolVal(l.b)))
                /\ (l.kind = "Str" /\ l.s = "true" => result.out = Ok(BoolVal(TRUE)))
                /\ (l.kind = "Str" /\ l.s = "false" => result.out = Ok(BoolVal(FALSE)))
                /\ (l.kind = "Str" /\ l.s \notin {"true", "false"} =>
                        result.out = Err(unknown_value(l.s)))
                /\ (l.kind \notin {"Bool", "Str"} =>
                        ~result.out.ok /\ result.out.val = NoValue))

C2_Witness ==
    /\ op = "from_meta_item"
    /\ ty = BoolTy
    /\ Item = NameValue("hello", LitStr("True", FALSE))
    /\ result.out = Err(unknown_value("True"))

\* What the inner type T of a wrapper makes of the item.
InnerOut == from_meta_item(Tail(ty), Item).out

C4_ResultNeverFails ==
    (op = "from_meta_item" /\ Self(ty) = "Result") =>
        /\ result.out.ok
        /\ result.out.err = NoError
        /\ (InnerOut.ok =>
                result.out.val.k = "Ok" /\ result.out.val.in = <<InnerOut.val>>)
        /\ (~InnerOut.ok =>
                /\ result.out.val.k = "Err"
                /\ result.out.val.e = InnerOut.err
                /\ result.out.val.in = <<>>)

C4_Witness ==
    /\ op = "from_meta_item"
    /\ ty = ResultTy(BoolTy)
    /\ Item.shape = "List"
    /\ result.out.ok
    /\ result.out.val.k = "Err"
    /\ result.out.val.e = unsupported_format("list")

\* C5: from_value hands a bool literal to from_bool, a string literal
\* (cooked or raw) to from_string with its contents, and a char literal to
\* from_char, and returns what that routine returns.
C5_DispatchOnLiteral ==
    (op = "from_value") =>
        /\ (TheLit.kind = "Bool" =>
                Tail(result.calls) = from_bool(ty, TheLit.b).calls
                /\ result.out = from_bool(ty, TheLit.b).out)
        /\ (TheLit.kind = "Str" =>
                Tail(result.calls) = from_string(ty, TheLit.s).calls
                /\ result.out = from_string(ty, TheLit.s).out)
        /\ (TheLit.kind = "Char" =>
                Tail(result.calls) = from_char(ty, TheLit.s).calls
                /\ result.out = from_char(ty, TheLit.s).out)

\* The char literal an implementor of from_char never receives.
C5_FailingInput ==
    /\ op = "from_value"
    /\ ty = UserTy({"from_char"})
    /\ TheLit = LitChar("c")
    /\ result.out = Err(unexpected_type("other"))
    /\ ~Called("from_char")

\* The nested items handed to HashMap<String, V>::from_list, the positions
\* of those that are attribute items, and what V makes of each.
Nested == Item.items
Attrs == {i \in 1..Len(Nested) : Nested[i].nk = "MetaItem"}
NameAt(i) == Nested[i].mi[1].name
ConvAt(i) == from_meta_item(Tail(ty), Nested[i].mi[1])
Repeats(i) == \E j \in Attrs : j < i /\ NameAt(j) = NameAt(i)
RECURSIVE ConvCalls(_, _)
ConvCalls(i, last) ==
    IF i > last THEN <<>>
    ELSE (IF i \in Attrs THEN ConvAt(i).calls ELSE <<>>) \o ConvCalls(i + 1, last)

\* C6: for HashMap<String, V>, from_list on nested items whose attribute
\* items have pairwise distinct names and all convert gives Ok(map) with
\* exactly one entry per nested attribute item, keyed by its name and holding
\* V::from_meta_item(item); bare literals add no entry and no error, and the
\* enclosing item's name adds no key.
C6_HashMapOk ==
    (/\ op = "from_list"
     /\ Self(ty) = "HashMap"
     /\ \A i, j \in Attrs : i # j => NameAt(i) # NameAt(j)
     /\ \A i \in Attrs : ConvAt(i).out.ok) =>
        /\ result.out.ok
        /\ result.out.err = NoError
        /\ result.out.val.k = "HashMap"
        /\ result.out.val.m = {[key |-> NameAt(i), v |-> ConvAt(i).out.val] : i \in Attrs}
        /\ Cardinality(result.out.val.m) = Cardinality(Attrs)
        /\ (Item.name \notin {NameAt(i) : i \in Attrs} =>
                \A en \in result.out.val.m : en.key # Item.name)

C6_Witness ==
    /\ op = "from_list"
    /\ ty = HashMapTy(BoolTy)
    /\ Nested = <<NestedLiteral(LitStr("world", FALSE)),
                  NestedMetaItem(NameValue("world", LitBool(FALSE)))>>
    /\ result.out = Ok(MapVal({[key |-> "world", v |-> BoolVal(FALSE)]}))

\* C7: for HashMap<String, V>, from_list scans the nested items in list
\* order and returns the first error it meets, with no partial map: a name
\* that repeats that of an earlier nested attribute item gives
\* duplicate-field naming it, without that item being converted; a failed
\* conversion of an item with a new name is returned as it is.
C7_HashMapFirstError ==
    (/\ op = "from_list"
     /\ Self(ty) = "HashMap"
     /\ \E i \in Attrs : Repeats(i) \/ ~ConvAt(i).out.ok) =>
        LET first == CHOOSE i \in Attrs :
                        /\ Repeats(i) \/ ~ConvAt(i).out.ok
                        /\ \A j \in Attrs : j < i => ~Repeats(j) /\ ConvAt(j).out.ok
        IN  /\ ~result.out.ok
            /\ result.out.val = NoValue
            /\ (Repeats(first) =>
                    /\ result.out.err = duplicate_field(NameAt(first))
                    /\ Tail(result.calls) = ConvCalls(1, first - 1))
            /\ (~Repeats(first) =>
                    /\ result.out.err = ConvAt(first).out.err
                    /\ Tail(result.calls) = ConvCalls(1, first))

C7_Witness ==
    /\ op = "from_list"
    /\ ty = HashMapTy(BoolTy)
    /\ Nested = <<NestedMetaItem(Word("hello")),
                  NestedMetaItem(NameValue("hello", LitChar("c")))>>
    /\ result.out = Err(duplicate_field("hello"))

====
